---- MODULE Spec2Model ----
(***************************************************************************)
(* Model of lib/renderer/fencedcode.go: the Confluence fenced-code-block   *)
(* renderer.  A Go string is a sequence of one-character strings; the      *)
(* output written to the BufWriter is a sequence whose elements are the    *)
(* program's string literals (one element each) and the characters of the  *)
(* variable texts concatenated between them.                               *)
(***************************************************************************)
EXTENDS Integers, Sequences, FiniteSets, TLC

VARIABLES
    supportedCodeLanguagesFile,   \* the embedded dataset file
    SupportedCodeBlockLanguages,  \* the package-level alias table (nil or a map)
    DefaultCodeBlockLanguage,     \* the package-level default language
    MacroContentKeys,             \* the renderer's set of content keys
    status,                       \* "init", "ready", "loadPanic", "renderPanic"
    source,                       \* the document: its fenced code blocks in order
    idx,                          \* the node the walker visits
    entering,                     \* the walker's next call enters (TRUE) or leaves
    w,                            \* the output written so far
    mark,                         \* Len(w) when the current node was entered
    supportedLanguage,            \* the lookup made by the last call, if any
    firstOut                      \* each rendered block with its first output

vars == <<supportedCodeLanguagesFile, SupportedCodeBlockLanguages,
          DefaultCodeBlockLanguage, MacroContentKeys, status, source, idx,
          entering, w, mark, supportedLanguage, firstOut>>

----------------------------------------------------------------------------
(* Bounds of the model. *)

\* the most lines a CONFLUENCE-MACRO block of the macro family has
MaxLines == 2

\* the most fenced blocks a document of the walk family has
MaxBlocks == 3

----------------------------------------------------------------------------
(* Strings: package strings. *)

Upper == <<"A","B","C","D","E","F","G","H","I","J","K","L","M",
           "N","O","P","Q","R","S","T","U","V","W","X","Y","Z">>
Lower == <<"a","b","c","d","e","f","g","h","i","j","k","l","m",
           "n","o","p","q","r","s","t","u","v","w","x","y","z">>

ToLowerChar(c) ==
    IF \E i \in 1..Len(Upper) : Upper[i] = c
    THEN Lower[CHOOSE i \in 1..Len(Upper) : Upper[i] = c]
    ELSE c

\* strings.ToLower
ToLower(s) == [i \in 1..Len(s) |-> ToLowerChar(s[i])]

IsSpace(c) == c \in {" ", "\t", "\n", "\r", "\f"}

RECURSIVE TrimLeft(_)
TrimLeft(s) ==
    IF s # <<>> /\ IsSpace(Head(s)) THEN TrimLeft(Tail(s)) ELSE s

RECURSIVE TrimRight(_)
TrimRight(s) ==
    IF s # <<>> /\ IsSpace(s[Len(s)])
    THEN TrimRight(SubSeq(s, 1, Len(s) - 1))
    ELSE s

\* strings.TrimSpace
TrimSpace(s) == TrimRight(TrimLeft(s))

\* strings.SplitN(text, ":", 2): one part without a colon, else the text
\* before the first colon and the text after it
SplitN(text) ==
    IF \E i \in 1..Len(text) : text[i] = ":"
    THEN LET i == CHOOSE j \in 1..Len(text) :
                      /\ text[j] = ":"
                      /\ \A k \in 1..(j - 1) : text[k] # ":"
         IN  <<SubSeq(text, 1, i - 1), SubSeq(text, i + 1, Len(text))>>
    ELSE <<text>>

RECURSIVE Concat(_)
\* the concatenation of a sequence of strings
Concat(ss) == IF ss = <<>> THEN <<>> ELSE Head(ss) \o Concat(Tail(ss))

----------------------------------------------------------------------------
(* Program constants. *)

LanguageStringConfluenceMacro ==
    <<"C","O","N","F","L","U","E","N","C","E","-","M","A","C","R","O">>

MacroContentKeyPlainTextBody ==
    <<"p","l","a","i","n","-","t","e","x","t","-","b","o","d","y">>

MacroContentKeyRichTextBody ==
    <<"r","i","c","h","-","t","e","x","t","-","b","o","d","y">>

Plain == <<"p","l","a","i","n">>

----------------------------------------------------------------------------
(* The dataset file: JSON values. *)

JString(s) == [t |-> "string", s |-> s, elems |-> <<>>]
JNumber == [t |-> "number", s |-> <<>>, elems |-> <<>>]
JNull == [t |-> "null", s |-> <<>>, elems |-> <<>>]
JAbsent == [t |-> "absent", s |-> <<>>, elems |-> <<>>]
JArray(es) == [t |-> "array", s |-> <<>>, elems |-> es]
\* an object, by the values of its "name" and "aliases" fields
JObject(name, aliases) == [t |-> "object", s |-> <<>>, elems |-> <<name, aliases>>]

FileMissing == [exists |-> FALSE, wellFormed |-> FALSE, doc |-> JNull]
FileNotJSON == [exists |-> TRUE, wellFormed |-> FALSE, doc |-> JNull]
File(doc) == [exists |-> TRUE, wellFormed |-> TRUE, doc |-> doc]

----------------------------------------------------------------------------
(* The alias table. *)

NilMap == [isNil |-> TRUE, m |-> <<>>]
MakeMap == [isNil |-> FALSE, m |-> <<>>]

\* resultMap[k] = v
Put(m, k, v) == [x \in (DOMAIN m) \cup {k} |-> IF x = k THEN v ELSE m[x]]

\* the outcome of a load: a panic, or the table returned
Panicked == [panic |-> TRUE, table |-> NilMap]
Returned(t) == [panic |-> FALSE, table |-> t]

RECURSIVE PutAliases(_, _, _)
\* the inner loop over one record's aliases; a.(string) panics on a
\* non-string
PutAliases(acc, aliases, name) ==
    IF acc.panic \/ aliases = <<>> THEN acc
    ELSE IF Head(aliases).t # "string" THEN Panicked
    ELSE PutAliases(
             Returned([isNil |-> FALSE,
                       m |-> Put(acc.table.m, Head(aliases).s, name)]),
             Tail(aliases), name)

RECURSIVE PutRecords(_, _)
\* the loop over the records; obj["name"].(string) and
\* obj["aliases"].([]interface{}) panic on a missing or differently typed
\* field, and on a nil map (a null element)
PutRecords(acc, result) ==
    IF acc.panic \/ result = <<>> THEN acc
    ELSE LET obj == Head(result)
             name == IF obj.t = "object" THEN obj.elems[1] ELSE JAbsent
             aliases == IF obj.t = "object" THEN obj.elems[2] ELSE JAbsent
         IN  IF name.t # "string" THEN Panicked
             ELSE IF aliases.t # "array" THEN Panicked
             ELSE PutRecords(PutAliases(acc, aliases.elems, name.s),
                             Tail(result))

\* json.Unmarshal(jsonData, &result) with result []map[string]interface{}
\* succeeds on null and on an array of objects and nulls
UnmarshalOk(file) ==
    /\ file.wellFormed
    /\ \/ file.doc.t = "null"
       \/ /\ file.doc.t = "array"
          /\ \A i \in 1..Len(file.doc.elems) :
                 file.doc.elems[i].t \in {"object", "null"}

loadSupportCodeLanguage(file) ==
    IF ~file.exists THEN Returned(NilMap)
    ELSE IF ~UnmarshalOk(file) THEN Returned(NilMap)
    ELSE PutRecords(Returned(MakeMap), file.doc.elems)

\* getSupportLanguage returning the key it was given on a miss
getSupportLanguage_MissReturnsKey(table, default, key) ==
    IF table.isNil THEN key
    ELSE IF key \in DOMAIN table.m THEN table.m[key]
    ELSE key

getSupportLanguage(table, default, key) ==
    IF table.isNil THEN key
    ELSE IF key \in DOMAIN table.m THEN table.m[key]
    ELSE default

----------------------------------------------------------------------------
(* The macro mini-language: writeMacro. *)

\* what one line of a CONFLUENCE-MACRO block appends, and to which builder:
\* "attribute" to macrostart, "content" and "parameter" to parameters;
\* "panic" when key[0] indexes the empty key
Element(kind, key, value) == [kind |-> kind, key |-> key, value |-> value]

macroLine(keys, text) ==
    LET keyValue == SplitN(text)
    IN  IF Len(keyValue) = 2
        THEN LET key == TrimSpace(keyValue[1])
                 value == TrimSpace(keyValue[2])
             IN  IF key = <<>> THEN Element("panic", <<>>, <<>>)
                 ELSE IF key[1] = keyValue[1][1]
                 THEN IF key \in keys
                      THEN Element("content", key, value)
                      ELSE Element("attribute", key, value)
                 ELSE Element("parameter", key, value)
        ELSE Element("parameter", <<>>, TrimSpace(keyValue[1]))

\* the text an element appends to its builder
ElementText(e) ==
    CASE e.kind = "content" ->
             <<"<ac:">> \o e.key \o <<">">> \o e.value \o <<"</ac:">> \o e.key \o <<">">>
      [] e.kind = "attribute" ->
             <<" ac:">> \o e.key \o <<"=\"">> \o e.value \o <<"\"">>
      [] e.kind = "parameter" ->
             <<"<ac:parameter ac:name=\"">> \o e.key \o <<"\">">> \o e.value
                 \o <<"</ac:parameter>">>
      [] OTHER -> <<>>

RECURSIVE macroLoop(_, _, _)
\* the loop over the lines, from the builders' state b
macroLoop(keys, lines, b) ==
    IF b.panic \/ lines = <<>> THEN b
    ELSE LET e == macroLine(keys, Head(lines))
         IN  macroLoop(keys, Tail(lines),
                 [panic |-> e.kind = "panic",
                  macrostart |-> IF e.kind = "attribute"
                                 THEN b.macrostart \o ElementText(e)
                                 ELSE b.macrostart,
                  parameters |-> IF e.kind \in {"content", "parameter"}
                                 THEN b.parameters \o ElementText(e)
                                 ELSE b.parameters])

\* writeMacro: whether it panicked, and what it wrote (nothing before the
\* loop has ended)
writeMacro(keys, lines) ==
    LET b == macroLoop(keys, lines,
                 [panic |-> FALSE,
                  macrostart |-> <<"<ac:structured-macro">>,
                  parameters |-> <<>>])
    IN  [panic |-> b.panic,
         written |-> IF b.panic THEN <<>>
                     ELSE b.macrostart \o <<">">> \o b.parameters
                              \o <<"</ac:structured-macro>">>]

\* writeLines starting its loop at the second line
writeLines_SkipsFirstLine(lines) ==
    IF lines = <<>> THEN <<>> ELSE Concat(Tail(lines))

\* writeLines: every line as it is
writeLines(lines) == Concat(lines)

----------------------------------------------------------------------------
(* renderConfluenceFencedCode. *)

NoLookup == [called |-> FALSE, key |-> <<>>, value |-> <<>>]
Lookup(key, value) == [called |-> TRUE, key |-> key, value |-> value]

CodeMacroOpen == "<ac:structured-macro ac:name=\"code\" ac:schema-version=\"1\">"
CodeMacroTheme == "<ac:parameter ac:name=\"theme\">Confluence</ac:parameter>"
CodeMacroLineNumbers == "<ac:parameter ac:name=\"linenumbers\">true</ac:parameter>"
CodeMacroBodyOpen == "<ac:plain-text-body><![CDATA[ "
CodeMacroClose == " ]]></ac:plain-text-body></ac:structured-macro>"

\* the effect of one call: whether it panicked, what it wrote to w, the
\* lookup it made, and the alias table it leaves
Effect(panic, written, lookup, table) ==
    [panic |-> panic, written |-> written, lookup |-> lookup, table |-> table]

\* renderConfluenceFencedCode remembering a missed key in the alias table,
\* under the key itself
renderConfluenceFencedCode_CachesMiss(table, default, keys, node, enter) ==
    LET langString == IF node.language.isNil THEN <<>> ELSE node.language.s
    IN  IF langString = LanguageStringConfluenceMacro
        THEN IF enter
             THEN LET m == writeMacro(keys, node.lines)
                  IN  Effect(m.panic, m.written, NoLookup, table)
             ELSE Effect(FALSE, <<>>, NoLookup, table)
        ELSE IF enter
             THEN LET key == ToLower(langString)
                      value == getSupportLanguage(table, default, key)
                  IN  Effect(FALSE,
                          <<CodeMacroOpen, CodeMacroTheme, CodeMacroLineNumbers>>
                            \o (IF ~node.language.isNil
                                THEN <<"<ac:parameter ac:name=\"language\">">>
                                         \o value \o <<"</ac:parameter>">>
                                ELSE <<>>)
                            \o <<CodeMacroBodyOpen>>
                            \o writeLines(node.lines),
                          IF ~node.language.isNil THEN Lookup(key, value)
                          ELSE NoLookup,
                          IF ~node.language.isNil /\ ~table.isNil
                                 /\ key \notin DOMAIN table.m
                          THEN [isNil |-> FALSE, m |-> Put(table.m, key, key)]
                          ELSE table)
             ELSE Effect(FALSE, <<CodeMacroClose>>, NoLookup, table)

renderConfluenceFencedCode(table, default, keys, node, enter) ==
    LET langString == IF node.language.isNil THEN <<>> ELSE node.language.s
    IN  IF langString = LanguageStringConfluenceMacro
        THEN IF enter
             THEN LET m == writeMacro(keys, node.lines)
                  IN  Effect(m.panic, m.written, NoLookup, table)
             ELSE Effect(FALSE, <<>>, NoLookup, table)
        ELSE IF enter
             THEN LET key == ToLower(langString)
                      value == getSupportLanguage(table, default, key)
                  IN  Effect(FALSE,
                          <<CodeMacroOpen, CodeMacroTheme, CodeMacroLineNumbers>>
                            \o (IF ~node.language.isNil
                                THEN <<"<ac:parameter ac:name=\"language\">">>
                                         \o value \o <<"</ac:parameter>">>
                                ELSE <<>>)
                            \o <<CodeMacroBodyOpen>>
                            \o writeLines(node.lines),
                          IF ~node.language.isNil THEN Lookup(key, value)
                          ELSE NoLookup,
                          table)
             ELSE Effect(FALSE, <<CodeMacroClose>>, NoLookup, table)

----------------------------------------------------------------------------
(* Inputs: the strings of the datasets and of the documents. *)

\* py
Py ==
    <<"p","y">>

\* PY
PyUpper ==
    <<"P","Y">>

\* Py
PyMixed ==
    <<"P","y">>

\* python
Python ==
    <<"p","y","t","h","o","n">>

\* sh
Sh ==
    <<"s","h">>

\* bash
Bash ==
    <<"b","a","s","h">>

\* go
Go ==
    <<"g","o">>

\* confluence-macro
LowerSentinel ==
    <<"c","o","n","f","l","u","e","n","c","e","-","m","a","c","r","o">>

\* x = 1\n
CodeLine ==
    <<"x"," ","="," ","1","\n">>

\* status: green\n
LineAttribute ==
    <<"s","t","a","t","u","s",":"," ","g","r","e","e","n","\n">>

\*   title: Build OK\n
LineParameter ==
    <<" "," ","t","i","t","l","e",":"," ","B","u","i","l","d"," ","O","K",
      "\n">>

\* plain-text-body: hello\n
LineContent ==
    <<"p","l","a","i","n","-","t","e","x","t","-","b","o","d","y",":"," ",
      "h","e","l","l","o","\n">>

\* rich-text-body:hi
LineRichContent ==
    <<"r","i","c","h","-","t","e","x","t","-","b","o","d","y",":","h","i">>

\* \tplain-text-body: x\n
LineIndentedContentKey ==
    <<"\t","p","l","a","i","n","-","t","e","x","t","-","b","o","d","y",":",
      " ","x","\n">>

\* Plain-Text-Body: x\n
LineOtherCaseContentKey ==
    <<"P","l","a","i","n","-","T","e","x","t","-","B","o","d","y",":"," ",
      "x","\n">>

\* just a value\n
LineNoColon ==
    <<"j","u","s","t"," ","a"," ","v","a","l","u","e","\n">>

\* \n (a blank line of the block)
LineBlank ==
    <<"\n">>

\* : value\n
LineEmptyKey ==
    <<":"," ","v","a","l","u","e","\n">>

\*    : value\n
LineSpaceKey ==
    <<" "," "," ",":"," ","v","a","l","u","e","\n">>

\* url: http://a\n
LineTwoColons ==
    <<"u","r","l",":"," ","h","t","t","p",":","/","/","a","\n">>

\* k :v\n
LineSpaceBeforeColon ==
    <<"k"," ",":","v","\n">>

MacroLines ==
    {LineAttribute, LineParameter, LineContent, LineRichContent,
     LineIndentedContentKey, LineOtherCaseContentKey, LineNoColon, LineBlank,
     LineEmptyKey, LineSpaceKey, LineTwoColons, LineSpaceBeforeColon}

\* the sequences over S of at most n elements
SeqsUpTo(S, n) == UNION {[1..k -> S] : k \in 0..n}

----------------------------------------------------------------------------
(* Inputs: the dataset files. *)

RecordPython == JObject(JString(Python), JArray(<<JString(Py), JString(Python)>>))
RecordBash == JObject(JString(Bash), JArray(<<JString(Sh), JString(Bash)>>))

DatasetGood == File(JArray(<<RecordPython, RecordBash>>))
\* an alias spelled with an upper-case letter
DatasetUpperAlias ==
    File(JArray(<<JObject(JString(Python), JArray(<<JString(PyMixed)>>)), RecordBash>>))
\* an alias listed twice, under the same name
DatasetRepeatedAlias ==
    File(JArray(<<RecordPython, JObject(JString(Python), JArray(<<JString(Py)>>))>>))
\* a record whose canonical name is the empty string
DatasetEmptyName ==
    File(JArray(<<JObject(JString(<<>>), JArray(<<JString(Py)>>))>>))

LoadableDatasets ==
    {DatasetGood, DatasetUpperAlias, DatasetRepeatedAlias, DatasetEmptyName,
     File(JArray(<<>>)), File(JNull)}

\* the datasets that cannot be read or parsed, or whose records lack a
\* field or hold one of another shape
UnreadableDatasets ==
    {FileMissing, FileNotJSON, File(JObject(JString(Python), JArray(<<>>))),
     File(JArray(<<RecordPython, JNumber>>))}

MisshapenDatasets ==
    {File(JArray(<<JObject(JAbsent, JArray(<<JString(Py)>>))>>)),
     File(JArray(<<JObject(JNumber, JArray(<<JString(Py)>>))>>)),
     File(JArray(<<RecordPython, JObject(JString(Bash), JAbsent)>>)),
     File(JArray(<<JObject(JString(Bash), JString(Sh))>>)),
     File(JArray(<<JObject(JString(Bash), JArray(<<JString(Sh), JNumber>>))>>)),
     File(JArray(<<RecordPython, JNull>>))}

Datasets == LoadableDatasets \cup UnreadableDatasets \cup MisshapenDatasets

----------------------------------------------------------------------------
(* Inputs: the documents. *)

NoLanguage == [isNil |-> TRUE, s |-> <<>>]
Language(s) == [isNil |-> FALSE, s |-> s]
FencedCodeBlock(language, lines) == [language |-> language, lines |-> lines]

Tags == {Py, PyUpper, PyMixed, Python, Sh, Go, LowerSentinel, <<>>}

\* one plain code block, under every dataset
LookupFamily ==
    [file : Datasets,
     source : {<<FencedCodeBlock(l, <<CodeLine>>)>> :
                  l \in {NoLanguage} \cup {Language(s) : s \in Tags}}]

\* one CONFLUENCE-MACRO block of at most MaxLines lines
MacroFamily ==
    [file : {DatasetGood},
     source : {<<FencedCodeBlock(Language(LanguageStringConfluenceMacro), ls)>> :
                  ls \in SeqsUpTo(MacroLines, MaxLines)}]

WalkBlocks ==
    {FencedCodeBlock(Language(Py), <<CodeLine>>),
     FencedCodeBlock(Language(Go), <<CodeLine, CodeLine>>),
     FencedCodeBlock(NoLanguage, <<CodeLine>>),
     FencedCodeBlock(Language(LanguageStringConfluenceMacro),
                     <<LineAttribute, LineParameter, LineContent>>),
     FencedCodeBlock(Language(LowerSentinel), <<LineAttribute>>),
     FencedCodeBlock(Language(LanguageStringConfluenceMacro), <<LineEmptyKey>>)}

\* documents of at most MaxBlocks blocks
WalkFamily ==
    [file : {DatasetGood, FileNotJSON},
     source : SeqsUpTo(WalkBlocks, MaxBlocks)]

\* one plain code block of at most MaxLines lines, with and without a tag
PlainFamily ==
    [file : {DatasetGood, FileNotJSON},
     source : {<<FencedCodeBlock(l, ls)>> :
                  l \in {NoLanguage, Language(PyUpper), Language(Go)},
                  ls \in SeqsUpTo({CodeLine, LineBlank, LineParameter}, MaxLines)}]

Inputs == LookupFamily \cup MacroFamily \cup WalkFamily \cup PlainFamily

----------------------------------------------------------------------------
(* The program. *)

Init ==
    /\ \E in \in Inputs :
           /\ supportedCodeLanguagesFile = in.file
           /\ source = in.source
    /\ SupportedCodeBlockLanguages = NilMap
    /\ DefaultCodeBlockLanguage = Plain
    /\ MacroContentKeys = {MacroContentKeyPlainTextBody, MacroContentKeyRichTextBody}
    /\ status = "init"
    /\ idx = 1
    /\ entering = TRUE
    /\ w = <<>>
    /\ mark = 0
    /\ supportedLanguage = NoLookup
    /\ firstOut = {}

\* package initialisation: SupportedCodeBlockLanguages =
\* loadSupportCodeLanguage("supported_code_language.json")
PackageInit ==
    /\ status = "init"
    /\ LET r == loadSupportCodeLanguage(supportedCodeLanguagesFile)
       IN  /\ status' = IF r.panic THEN "loadPanic" ELSE "ready"
           /\ SupportedCodeBlockLanguages' = r.table
    /\ UNCHANGED <<supportedCodeLanguagesFile, DefaultCodeBlockLanguage,
                   MacroContentKeys, source, idx, entering, w, mark,
                   supportedLanguage, firstOut>>

\* the walker calls the renderer on entering node idx
Enter ==
    /\ status = "ready"
    /\ entering
    /\ idx <= Len(source)
    /\ LET e == renderConfluenceFencedCode(SupportedCodeBlockLanguages,
                    DefaultCodeBlockLanguage, MacroContentKeys, source[idx], TRUE)
       IN  /\ status' = IF e.panic THEN "renderPanic" ELSE "ready"
           /\ w' = w \o e.written
           /\ supportedLanguage' = e.lookup
           /\ SupportedCodeBlockLanguages' = e.table
    /\ mark' = Len(w)
    /\ entering' = FALSE
    /\ UNCHANGED <<supportedCodeLanguagesFile, DefaultCodeBlockLanguage,
                   MacroContentKeys, source, idx, firstOut>>

\* the walker calls the renderer on leaving node idx, and goes to the next
Leave ==
    /\ status = "ready"
    /\ ~entering
    /\ LET e == renderConfluenceFencedCode(SupportedCodeBlockLanguages,
                    DefaultCodeBlockLanguage, MacroContentKeys, source[idx], FALSE)
       IN  /\ status' = IF e.panic THEN "renderPanic" ELSE "ready"
           /\ w' = w \o e.written
           /\ supportedLanguage' = e.lookup
           /\ SupportedCodeBlockLanguages' = e.table
    /\ firstOut' =
           IF \E r \in firstOut : r.node = source[idx] THEN firstOut
           ELSE firstOut \cup {[node |-> source[idx],
                                out |-> SubSeq(w', mark + 1, Len(w'))]}
    /\ idx' = idx + 1
    /\ entering' = TRUE
    /\ UNCHANGED <<supportedCodeLanguagesFile, DefaultCodeBlockLanguage,
                   MacroContentKeys, source, mark>>

Next == PackageInit \/ Enter \/ Leave

Spec == Init /\ [][Next]_vars

----------------------------------------------------------------------------
(* What the claims speak of. *)

\* the dataset's records, when it unmarshals
DatasetRecords(file) ==
    IF UnmarshalOk(file) /\ file.doc.t = "array"
    THEN {file.doc.elems[i] : i \in 1..Len(file.doc.elems)}
    ELSE {}

WellShaped(rec) ==
    /\ rec.t = "object"
    /\ rec.elems[1].t = "string"
    /\ rec.elems[2].t = "array"
    /\ \A j \in 1..Len(rec.elems[2].elems) : rec.elems[2].elems[j].t = "string"

\* the pairs <<alias, canonical name>> the dataset lists
DatasetAliases(file) ==
    UNION {{<<rec.elems[2].elems[j].s, rec.elems[1].s>> :
               j \in 1..Len(rec.elems[2].elems)} :
           rec \in {r \in DatasetRecords(file) : WellShaped(r)}}

\* a dataset that cannot be read or parsed, or holds a record whose name or
\* aliases field is missing or of another shape
BadDataset(file) ==
    \/ ~file.exists
    \/ ~file.wellFormed
    \/ file.doc.t \notin {"null", "array"}
    \/ /\ file.doc.t = "array"
       /\ \E i \in 1..Len(file.doc.elems) : ~WellShaped(file.doc.elems[i])

\* the last call entered node idx, and it made a lookup
LookedUp == supportedLanguage.called

IsMacroBlock(node) ==
    ~node.language.isNil /\ node.language.s = LanguageStringConfluenceMacro

\* the walker has called the renderer on entering node idx, and not yet on
\* leaving it
Entered == status # "init" /\ ~entering /\ idx <= Len(source)

\* the walker has called the renderer on leaving node idx - 1
Left == status # "init" /\ entering /\ idx > 1

\* what has been written since the current node was entered
Segment == SubSeq(w, mark + 1, Len(w))

HasColon(text) == \E i \in 1..Len(text) : text[i] = ":"

\* the element the grammar gives a line with a colon
ClaimedText(text) ==
    LET left == SplitN(text)[1]
        key == TrimSpace(left)
        value == TrimSpace(SplitN(text)[2])
        indented == left # <<>> /\ IsSpace(left[1])
    IN  IF indented
        THEN <<"<ac:parameter ac:name=\"">> \o key \o <<"\">">> \o value
                 \o <<"</ac:parameter>">>
        ELSE IF key \in {MacroContentKeyPlainTextBody, MacroContentKeyRichTextBody}
        THEN <<"<ac:">> \o key \o <<">">> \o value \o <<"</ac:">> \o key \o <<">">>
        ELSE <<" ac:">> \o key \o <<"=\"">> \o value \o <<"\"">>

RECURSIVE TextsOf(_, _, _)
\* the texts of the lines' elements of the given kinds, in line order
TextsOf(keys, lines, kinds) ==
    IF lines = <<>> THEN <<>>
    ELSE LET e == macroLine(keys, Head(lines))
         IN  (IF e.kind \in kinds THEN ElementText(e) ELSE <<>>)
                 \o TextsOf(keys, Tail(lines), kinds)

\* how many elements of s equal x
Count(s, x) == Cardinality({i \in 1..Len(s) : s[i] = x})

----------------------------------------------------------------------------
(* The claims. *)

\* C1: for every alias a the dataset maps to the canonical name c, and every
\* letter-case variant of a given as the tag of a plain code block, the
\* lookup returns c.
C1_LookupIgnoresCase ==
    (status = "ready" /\ LookedUp) =>
        \A p \in DatasetAliases(supportedCodeLanguagesFile) :
            ToLower(p[1]) = ToLower(source[idx].language.s)
                => supportedLanguage.value = p[2]

\* C2, as stated: a lookup of a string that is not an alias of the table
\* returns plain.
C2_UnknownIsPlain ==
    (status = "ready" /\ LookedUp
        /\ supportedLanguage.key \notin DOMAIN SupportedCodeBlockLanguages.m)
        => supportedLanguage.value = Plain

\* C2, amended: when the table is present, a lookup of a string that is not
\* an alias of the table returns plain.
C2_UnknownIsPlainWhenLoaded ==
    (status = "ready" /\ LookedUp
        /\ ~SupportedCodeBlockLanguages.isNil
        /\ supportedLanguage.key \notin DOMAIN SupportedCodeBlockLanguages.m)
        => supportedLanguage.value = Plain

\* C2, its case: a lookup under a present table missed
C2_Witness ==
    /\ status = "ready"
    /\ LookedUp
    /\ ~SupportedCodeBlockLanguages.isNil
    /\ SupportedCodeBlockLanguages.m # <<>>
    /\ supportedLanguage.key \notin DOMAIN SupportedCodeBlockLanguages.m

\* C3: a lookup never aborts and never returns the empty string, whatever
\* the tag and whatever the table.
C3_LookupNeverEmpty ==
    LookedUp => (status = "ready" /\ supportedLanguage.value # <<>>)

\* C4: no line of a CONFLUENCE-MACRO block makes writeMacro abort: once the
\* block is entered the renderer has not panicked and every line has been
\* classified as an attribute, a parameter or a content section.
C4_NoLineAbortsParsing ==
    (Entered /\ IsMacroBlock(source[idx])) =>
        /\ status = "ready"
        /\ \A i \in 1..Len(source[idx].lines) :
               macroLine(MacroContentKeys, source[idx].lines[i]).kind
                   \in {"attribute", "parameter", "content"}

\* C5: a dataset that cannot be read or parsed, or with a misshapen record,
\* is not fatal: the load ends with the table absent and without a panic,
\* and every lookup after it returns the tag it was given.
C5_BadDatasetIsNotFatal ==
    (status # "init" /\ BadDataset(supportedCodeLanguagesFile)) =>
        /\ status # "loadPanic"
        /\ SupportedCodeBlockLanguages.isNil
        /\ LookedUp => supportedLanguage.value = supportedLanguage.key

\* C6: every line with a colon of an entered CONFLUENCE-MACRO block has
\* become the element the grammar gives it: a content section for an
\* unindented content key, an attribute for any other unindented key, a
\* parameter for an indented key.
C6_LinesBecomeTheirElements ==
    (Entered /\ IsMacroBlock(source[idx])) =>
        /\ status = "ready"
        /\ \A i \in 1..Len(source[idx].lines) :
               HasColon(source[idx].lines[i]) =>
                   ElementText(macroLine(MacroContentKeys, source[idx].lines[i]))
                       = ClaimedText(source[idx].lines[i])

\* C7: the output of every entered CONFLUENCE-MACRO block is the opening
\* tag with all its attributes, then the parameters and content sections in
\* line order, then the closing tag.
C7_MacroOutputShape ==
    (Entered /\ IsMacroBlock(source[idx])) =>
        Segment = <<"<ac:structured-macro">>
                      \o TextsOf(MacroContentKeys, source[idx].lines, {"attribute"})
                      \o <<">">>
                      \o TextsOf(MacroContentKeys, source[idx].lines,
                                 {"parameter", "content"})
                      \o <<"</ac:structured-macro>">>

\* C8: of the lines of a rendered CONFLUENCE-MACRO block, those without a
\* colon that are not empty become a parameter with an empty name and the
\* trimmed line as its value, and only those do.
C8_OnlyNonEmptyLinesBecomeNamelessParameters ==
    (status = "ready" /\ Entered /\ IsMacroBlock(source[idx])) =>
        \A i \in 1..Len(source[idx].lines) :
            LET text == source[idx].lines[i]
                nameless == /\ ~HasColon(text)
                            /\ macroLine(MacroContentKeys, text)
                                   = Element("parameter", <<>>, TrimSpace(text))
            IN  nameless <=> (~HasColon(text) /\ TrimSpace(text) # <<>>)

\* C9: whenever a block has been rendered (entered and left), its output is
\* the output of the first render of the same block, whatever was rendered
\* in between, and the alias table, the content keys and the default
\* language are what they were after construction.
C9_RenderIsIdempotent ==
    (status = "ready" /\ Left) =>
        /\ \A r \in firstOut : r.node = source[idx - 1] => r.out = Segment
        /\ SupportedCodeBlockLanguages
               = loadSupportCodeLanguage(supportedCodeLanguagesFile).table
        /\ MacroContentKeys = {MacroContentKeyPlainTextBody, MacroContentKeyRichTextBody}
        /\ DefaultCodeBlockLanguage = Plain

\* C9, its case: a block rendered, another block rendered, the first block
\* rendered again, with a lookup that missed
C9_Witness ==
    /\ status = "ready"
    /\ Left
    /\ idx = 4
    /\ source[1] = source[3]
    /\ source[1] # source[2]
    /\ source[1].language = Language(Go)
    /\ ~SupportedCodeBlockLanguages.isNil

\* C10: a block tagged CONFLUENCE-MACRO has its whole macro written once it
\* is entered and nothing more when it is left; any other block has the
\* opening code macro written once it is entered and the closing tags when
\* it is left, so that every code macro opened is closed before the next
\* block is entered.
C10_DispatchAndTwoPhaseVisit ==
    /\ Entered =>
           IF IsMacroBlock(source[idx])
           THEN /\ Segment # <<>>
                /\ Head(Segment) = "<ac:structured-macro"
                /\ Segment[Len(Segment)] = "</ac:structured-macro>"
                /\ Count(w, CodeMacroOpen) = Count(w, CodeMacroClose)
           ELSE /\ Segment # <<>>
                /\ Head(Segment) = CodeMacroOpen
                /\ Count(w, CodeMacroOpen) = Count(w, CodeMacroClose) + 1
    /\ Left =>
           /\ Count(w, CodeMacroOpen) = Count(w, CodeMacroClose)
           /\ IF IsMacroBlock(source[idx - 1])
              THEN Segment = writeMacro(MacroContentKeys, source[idx - 1].lines).written
              ELSE /\ Head(Segment) = CodeMacroOpen
                   /\ Segment[Len(Segment)] = CodeMacroClose
                   /\ Count(Segment, CodeMacroClose) = 1

\* C11: once a plain code block is entered, what has been written for it is
\* the opening code macro with theme=Confluence and linenumbers=true, then
\* a language parameter exactly when the block has a language tag, holding
\* the lookup of the tag, then the opening of the CDATA body and every line
\* of the block, in order and as it is.
C11_PlainCodeEnterOutput ==
    (Entered /\ ~IsMacroBlock(source[idx])) =>
        /\ status = "ready"
        /\ Segment =
               <<"<ac:structured-macro ac:name=\"code\" ac:schema-version=\"1\">",
                 "<ac:parameter ac:name=\"theme\">Confluence</ac:parameter>",
                 "<ac:parameter ac:name=\"linenumbers\">true</ac:parameter>">>
               \o (IF source[idx].language.isNil THEN <<>>
                   ELSE <<"<ac:parameter ac:name=\"language\">">>
                            \o getSupportLanguage(SupportedCodeBlockLanguages,
                                   DefaultCodeBlockLanguage,
                                   ToLower(source[idx].language.s))
                            \o <<"</ac:parameter>">>)
               \o <<"<ac:plain-text-body><![CDATA[ ">>
               \o Concat(source[idx].lines)
        /\ source[idx].language.isNil =>
               Count(Segment, "<ac:parameter ac:name=\"language\">") = 0

\* C11, its case: a tagged plain code block of two different lines has been
\* entered under a loaded table
C11_Witness ==
    /\ status = "ready"
    /\ Entered
    /\ ~IsMacroBlock(source[idx])
    /\ ~source[idx].language.isNil
    /\ ~SupportedCodeBlockLanguages.isNil
    /\ Len(source[idx].lines) = 2
    /\ source[idx].lines[1] # source[idx].lines[2]

\* C11, its other case: a plain code block without a tag has been entered
C11_WitnessNoTag ==
    /\ status = "ready"
    /\ Entered
    /\ source[idx].language.isNil
    /\ source[idx].lines # <<>>

====
